---- MODULE Spec2Model ----
(***************************************************************************)
(* A model of the hrtimer crate (src/src/lib.rs): Period quantisation,     *)
(* the PeriodSet counters, the thread-local HrTime registry, the HrPeriod  *)
(* handles, and the platform calls the registry makes under cfg(windows),  *)
(* cfg(target_os = "macos") and on any other target.                       *)
(***************************************************************************)
EXTENDS Integers, Sequences, FiniteSets, Bags, TLC

\* ------------------------------------------------------------------ bounds
\* How many HrPeriod values may be alive at once.
MaxHandles == 2
\* How many HrTime registries one thread may create in one run.
MaxRegs == 2
\* How many platform calls may be logged for one registry.
MaxCalls == 4
\* The largest value of Duration's seconds field; it stands for u64::MAX,
\* which is beyond the integers TLC computes with.
MaxSecs == 2
\* The largest value of a counter slot; it stands for usize::MAX.
UsizeMax == 7
\* How many PeriodSet operations are applied to a set on its own.
MaxSetOps == 4

\* --------------------------------------------------------------- constants
PeriodMAX == 16
PeriodMIN == 1
\* Option::None of Option<Period>; Some(Period(p)) is p.
None == 0
\* The outcome of Period::from when `p + Duration::from_nanos(..)` panics.
Panic == -1
NANOS_PER_SEC == 1000000000
NANOS_PER_MILLI == 1000000
MILLIS_PER_SEC == 1000
ROUND_UP_NANOS == 999999
U8_MAX == 255

Threads == {"t1", "t2"}
\* Cargo profiles: debug-assertions and overflow-checks are on in dev, off in
\* release, and can each be set on their own.
Profiles == [debug_assertions : BOOLEAN, overflow_checks : BOOLEAN]
ReleaseProfile == [debug_assertions |-> FALSE, overflow_checks |-> FALSE]
Platforms == {"windows", "macos", "other"}
\* An Rc<RefCell<HrTime>> allocation: the gen-th registry thread `owner` made.
RegId(t, n) == [owner |-> t, gen |-> n]
\* Weak::default(): a Weak that never upgrades.
NullWeak == [owner |-> "-", gen |-> 0]
\* The thread policy a thread has before anything elevates it.
BasePolicy == 0

VARIABLES
    platform,   \* the cfg the crate was built for
    HR_TIME,    \* thread_local slot -> Weak<RefCell<HrTime>> (a RegId or NullWeak)
    heap,       \* thread -> the HrTime allocations it has made, in order
    handles,    \* the bag of live HrPeriod values
    calls,      \* thread -> the backend calls made for its latest registry
    oscalls,    \* thread -> the OS calls made for its latest registry
    winRes,     \* Period -> outstanding timeBeginPeriod requests (process-wide)
    macPolicy,  \* thread -> its time-constraint policy (BasePolicy or a Period)
    osError,    \* an assert_eq!(0, ..) on a platform call has failed
    arg,        \* Period::from on its own: the Duration converted
    ret,        \* Period::from on its own: its outcome (None before the call)
    arg2,       \* a second Duration, converted after the first
    ret2,       \* the outcome of converting arg2 (None before the call)
    build,      \* the profile the crate was compiled with
    set,        \* PeriodSet on its own: its counts
    setLog,     \* PeriodSet on its own: the add/remove calls made on it
    setRes      \* PeriodSet on its own: "ok", or "panic" once a call panicked

vars == <<platform, HR_TIME, heap, handles, calls, oscalls, winRes, macPolicy,
          osError, arg, ret, arg2, ret2, build, set, setLog, setRes>>
sysVars == <<platform, HR_TIME, heap, handles, calls, oscalls, winRes, macPolicy,
             osError>>
fromVars == <<arg, ret, arg2, ret2>>
setVars == <<build, set, setLog, setRes>>

\* ---------------------------------------------------------------- Duration
Duration(s, n) == [secs |-> s, nanos |-> n]
Duration_from_nanos(n) == Duration(n \div NANOS_PER_SEC, n % NANOS_PER_SEC)
Duration_from_millis(m) ==
    Duration(m \div MILLIS_PER_SEC, (m % MILLIS_PER_SEC) * NANOS_PER_MILLI)
Duration_MAX == Duration(MaxSecs, NANOS_PER_SEC - 1)

\* Duration::checked_add: None when the seconds overflow.
Duration_checked_add(a, b) ==
    LET n == a.nanos + b.nanos
        carry == IF n >= NANOS_PER_SEC THEN 1 ELSE 0
        s == a.secs + b.secs + carry
    IN  IF s > MaxSecs
        THEN [some |-> FALSE, secs |-> 0, nanos |-> 0]
        ELSE [some |-> TRUE, secs |-> s, nanos |-> n - carry * NANOS_PER_SEC]

Duration_as_millis(d) == d.secs * MILLIS_PER_SEC + d.nanos \div NANOS_PER_MILLI

Min2(a, b) == IF a <= b THEN a ELSE b
Max2(a, b) == IF a >= b THEN a ELSE b

\* ------------------------------------------------------------------ Period
\* A slip: the duration is truncated to whole milliseconds, not rounded up.
Period_from_truncating(p) ==
    LET millis == Duration_as_millis(p)
        rounded == IF millis <= U8_MAX THEN millis ELSE PeriodMAX
    IN  Max2(PeriodMIN, Min2(rounded, PeriodMAX))

\* impl From<Duration> for Period. `p + q` on Durations is
\* checked_add(..).expect(..): it panics when the sum overflows.
Period_from(p) ==
    LET sum == Duration_checked_add(p, Duration_from_nanos(ROUND_UP_NANOS))
    IN  IF ~sum.some
        THEN Panic
        ELSE LET millis == Duration_as_millis(sum)
                 rounded == IF millis <= U8_MAX THEN millis ELSE PeriodMAX
             IN  Max2(PeriodMIN, Min2(rounded, PeriodMAX))

\* --------------------------------------------------------------- PeriodSet
Slots == 0..(PeriodMAX - PeriodMIN - 1)
PeriodSet_default == [i \in Slots |-> 0]
PeriodSet_idx(p) == p - PeriodMIN

\* A slip: MAX clamped into the last slot instead of being left out.
PeriodSet_add_countsmax(counts, p) ==
    [counts EXCEPT ![Min2(PeriodSet_idx(p), PeriodMAX - PeriodMIN - 1)] = @ + 1]

\* PeriodSet::add where it returns; `+= 1` on a usize wraps when the build
\* has no overflow checks.
PeriodSet_add(counts, p) ==
    IF p # PeriodMAX
    THEN [counts EXCEPT ![PeriodSet_idx(p)] = (@ + 1) % (UsizeMax + 1)]
    ELSE counts

\* `+= 1` panics on overflow in a build with overflow checks.
PeriodSet_add_panics(counts, p, profile) ==
    /\ p # PeriodMAX
    /\ counts[PeriodSet_idx(p)] = UsizeMax
    /\ profile.overflow_checks

\* debug_assert_ne!(*self.idx(p), 0)
PeriodSet_remove_assert(counts, p) ==
    p # PeriodMAX => counts[PeriodSet_idx(p)] # 0

\* PeriodSet::remove where it returns; `-= 1` on a usize wraps when the build
\* has no overflow checks.
PeriodSet_remove(counts, p) ==
    IF p # PeriodMAX
    THEN [counts EXCEPT ![PeriodSet_idx(p)] = (@ + UsizeMax) % (UsizeMax + 1)]
    ELSE counts

\* debug_assert_ne! is compiled only with debug assertions; `-= 1` panics on
\* overflow only with overflow checks.
PeriodSet_remove_panics(counts, p, profile) ==
    \/ profile.debug_assertions /\ ~PeriodSet_remove_assert(counts, p)
    \/ /\ p # PeriodMAX
       /\ counts[PeriodSet_idx(p)] = 0
       /\ profile.overflow_checks

RECURSIVE PeriodSet_scan(_, _)
PeriodSet_scan(counts, i) ==
    IF i \notin Slots
    THEN None
    ELSE IF counts[i] > 0
         THEN i + PeriodMIN
         ELSE PeriodSet_scan(counts, i + 1)

\* A slip: the scan keeps the last positive slot, not the first.
PeriodSet_min_last(counts) ==
    IF \E i \in Slots : counts[i] > 0
    THEN PeriodMIN + CHOOSE i \in Slots :
                        counts[i] > 0 /\ \A j \in Slots : counts[j] > 0 => j <= i
    ELSE None

\* A slip: the index is returned without `+ Period::MIN.0`.
PeriodSet_min_unshifted(counts) ==
    LET m == PeriodSet_scan(counts, 0)
    IN  IF m = None THEN None ELSE m - PeriodMIN

PeriodSet_min(counts) == PeriodSet_scan(counts, 0)

\* -------------------------------------------------------- platform backend
\* What a registry operation works on: the HrTime it borrows (hrt), the log of
\* backend start/stop calls and the log of OS calls made for that registry,
\* the process's timer requests, the thread's policy, and whether an
\* assert_eq!(0, ..) on an OS call has failed.
BackendCall(c, op, p) == [c EXCEPT !.log = Append(@, [op |-> op, period |-> p])]
OsCall(c, op, p) == [c EXCEPT !.os = Append(@, [op |-> op, period |-> p])]

\* winmm's timeBeginPeriod: one more outstanding request for resolution p.
timeBeginPeriod(c, p) ==
    [OsCall(c, "timeBeginPeriod", p) EXCEPT !.win[p] = @ + 1]

\* winmm's timeEndPeriod: clears one request for p, or fails (TIMERR_NOCANDO,
\* tripping the assert_eq!) when none is outstanding.
timeEndPeriod(c, p) ==
    IF c.win[p] > 0
    THEN [OsCall(c, "timeEndPeriod", p) EXCEPT !.win[p] = @ - 1]
    ELSE [OsCall(c, "timeEndPeriod", p) EXCEPT !.err = TRUE]

\* mac::set_thread_policy: the calling thread's policy becomes `policy`.
set_thread_policy(c, policy) ==
    [OsCall(c, "set_thread_policy", policy) EXCEPT !.mac = policy]

\* mac::set_realtime: builds the realtime policy of Period p and sets it.
set_realtime(c, p) ==
    [OsCall(c, "set_realtime", p) EXCEPT !.mac = p]

\* mac::get_default_policy: the calling thread's current policy.
get_default_policy(policy) == policy

\* ------------------------------------------------------------------ HrTime
\* HrTime::new, in a fresh Rc. deflt exists under cfg(target_os = "macos") only.
HrTime_new(policy) ==
    [state |-> "live", periods |-> PeriodSet_default, active |-> None,
     deflt |-> IF platform = "macos" THEN get_default_policy(policy)
               ELSE BasePolicy]

\* A slip: the macOS branch without its else, so nothing restores the default.
HrTime_start_norestore(c) ==
    LET b == IF c.hrt.active # None THEN BackendCall(c, "start", c.hrt.active)
             ELSE c
    IN  CASE platform = "macos" /\ b.hrt.active # None ->
                set_realtime(b, b.hrt.active)
          [] platform = "windows" /\ b.hrt.active # None ->
                timeBeginPeriod(b, b.hrt.active)
          [] OTHER -> b

\* HrTime::start. With active = Some(p) this is the backend's start(p).
HrTime_start(c) ==
    LET b == IF c.hrt.active # None THEN BackendCall(c, "start", c.hrt.active)
             ELSE c
    IN  CASE platform = "macos" ->
                IF b.hrt.active # None
                THEN set_realtime(b, b.hrt.active)
                ELSE set_thread_policy(b, b.hrt.deflt)
          [] platform = "windows" ->
                IF b.hrt.active # None
                THEN timeBeginPeriod(b, b.hrt.active)
                ELSE b
          [] OTHER -> b

\* HrTime::stop. With active = Some(p) this is the backend's stop(p).
HrTime_stop(c) ==
    LET b == IF c.hrt.active # None THEN BackendCall(c, "stop", c.hrt.active)
             ELSE c
    IN  IF platform = "windows" /\ b.hrt.active # None
        THEN timeEndPeriod(b, b.hrt.active)
        ELSE b

\* A slip: the new period is started without stopping the old one.
HrTime_update_nostop(c) ==
    LET next == PeriodSet_min(c.hrt.periods)
    IN  IF next # c.hrt.active
        THEN HrTime_start([c EXCEPT !.hrt.active = next])
        ELSE c

\* A slip: no `next != self.active` test, so every change restarts.
HrTime_update_always(c) ==
    HrTime_start([HrTime_stop(c) EXCEPT !.hrt.active = PeriodSet_min(c.hrt.periods)])

HrTime_update(c) ==
    LET next == PeriodSet_min(c.hrt.periods)
    IN  IF next # c.hrt.active
        THEN HrTime_start([HrTime_stop(c) EXCEPT !.hrt.active = next])
        ELSE c

\* A slip: add re-derives active without counting the period.
HrTime_add_uncounted(c, p) == HrTime_update(c)

HrTime_add(c, p) ==
    HrTime_update([c EXCEPT !.hrt.periods = PeriodSet_add(@, p)])

\* A slip: remove without the update() that re-derives active.
HrTime_remove_noupdate(c, p) ==
    [c EXCEPT !.hrt.periods = PeriodSet_remove(@, p),
              !.err = @ \/ ~PeriodSet_remove_assert(c.hrt.periods, p)]

HrTime_remove(c, p) ==
    HrTime_update(
        [c EXCEPT !.hrt.periods = PeriodSet_remove(@, p),
                  !.err = @ \/ ~PeriodSet_remove_assert(c.hrt.periods, p)])

\* A slip: Drop restores the default policy without `if self.active.is_some()`.
HrTime_drop_restores_always(c) ==
    LET s == HrTime_stop(c)
        m == IF platform = "macos"
             THEN set_thread_policy(s, s.hrt.deflt)
             ELSE s
    IN  [m EXCEPT !.hrt.state = "dropped"]

\* impl Drop for HrTime, run when the last Rc goes away.
HrTime_drop(c) ==
    LET s == HrTime_stop(c)
        m == IF platform = "macos" /\ s.hrt.active # None
             THEN set_thread_policy(s, s.hrt.deflt)
             ELSE s
    IN  [m EXCEPT !.hrt.state = "dropped"]

\* A slip: update through HrTime::remove and HrTime::add, each re-deriving active.
HrPeriod_update_body_twice(c, old, new) ==
    HrTime_add(HrTime_remove(c, old), new)

\* HrPeriod::update's body once `new != self.period`.
HrPeriod_update_body(c, old, new) ==
    HrTime_update(
        [c EXCEPT !.hrt.periods = PeriodSet_add(PeriodSet_remove(@, old), new),
                  !.err = @ \/ ~PeriodSet_remove_assert(c.hrt.periods, old)])

\* ----------------------------------------------------------------- handles
\* struct HrPeriod; `thread` is the thread that holds it (an Rc is not Send).
HrPeriod(t, p, id) == [thread |-> t, period |-> p, hrt |-> id]

Live == BagToSet(handles)
LiveOn(t) == {h \in Live : h.thread = t}

\* The HrTime behind an Rc or a Weak.
Cell(id) == heap[id.owner][id.gen]

\* Rc::strong_count of registry id: the handles that hold it.
StrongCount(id) ==
    LET holders == {h \in Live : h.hrt = id}
        RECURSIVE Sum(_)
        Sum(S) == IF S = {} THEN 0
                  ELSE LET h == CHOOSE x \in S : TRUE
                       IN  CopiesIn(h, handles) + Sum(S \ {h})
    IN  Sum(holders)

\* A slip: the slot's registry is used whether or not it is still alive.
Upgrades_stale(w) == w # NullWeak

\* Weak::upgrade
Upgrades(w) == w # NullWeak /\ Cell(w).state = "live"

\* A slip: one static HR_TIME for every thread.
Slot_shared(t) == "t1"

\* thread_local!: each thread reads and writes its own HR_TIME.
Slot(t) == t

\* The durations callers pass to HrTime::get and HrPeriod::update.
Requests ==
    {Duration_from_millis(1), Duration_from_millis(4), Duration(1, 0), Duration_MAX}

\* A new registry starts its logs afresh.
Ctx(t, reg, fresh) ==
    [hrt |-> reg,
     log |-> IF fresh THEN <<>> ELSE calls[t],
     os |-> IF fresh THEN <<>> ELSE oscalls[t],
     win |-> winRes, mac |-> macPolicy[t], err |-> osError]

\* Write back what an operation of thread t did to registry id.
Commit(t, id, c) ==
    /\ Len(c.log) <= MaxCalls
    /\ heap' = [heap EXCEPT ![id.owner] =
                    IF id.gen > Len(@) THEN Append(@, c.hrt)
                    ELSE [@ EXCEPT ![id.gen] = c.hrt]]
    /\ calls' = [calls EXCEPT ![t] = c.log]
    /\ oscalls' = [oscalls EXCEPT ![t] = c.os]
    /\ winRes' = c.win
    /\ macPolicy' = [macPolicy EXCEPT ![t] = c.mac]
    /\ osError' = c.err

\* ----------------------------------------------------------------- actions
Init ==
    /\ platform \in Platforms
    /\ HR_TIME = [t \in Threads |-> NullWeak]
    /\ heap = [t \in Threads |-> <<>>]
    /\ handles = EmptyBag
    /\ calls = [t \in Threads |-> <<>>]
    /\ oscalls = [t \in Threads |-> <<>>]
    /\ winRes = [p \in PeriodMIN..PeriodMAX |-> 0]
    /\ macPolicy = [t \in Threads |-> BasePolicy]
    /\ osError = FALSE
    /\ arg = Duration(0, 0)
    /\ ret = None
    /\ arg2 = Duration(0, 0)
    /\ ret2 = None
    /\ build = ReleaseProfile
    /\ set = PeriodSet_default
    /\ setLog = <<>>
    /\ setRes = "ok"

\* A slip: get without `*b = Rc::downgrade(&hrt)`, so HR_TIME never upgrades.
Get_nodowngrade(t, period) ==
    LET id == RegId(t, Len(heap[t]) + 1)
        c == Ctx(t, HrTime_new(macPolicy[t]), TRUE)
        p == Period_from(period)
    IN  /\ BagCardinality(handles) < MaxHandles
        /\ Len(heap[t]) < MaxRegs
        /\ IF p = Panic
           THEN /\ UNCHANGED handles
                /\ Commit(t, id, HrTime_drop(c))
           ELSE /\ handles' = handles (+) SetToBag({HrPeriod(t, p, id)})
                /\ Commit(t, id, HrTime_add(c, p))
        /\ UNCHANGED <<platform, HR_TIME, fromVars, setVars>>

\* HrTime::get(period) on thread t.
Get(t, period) ==
    LET weak == HR_TIME[Slot(t)]
        up == Upgrades(weak)
        id == IF up THEN weak ELSE RegId(t, Len(heap[t]) + 1)
        c == IF up THEN Ctx(t, Cell(id), FALSE)
             ELSE Ctx(t, HrTime_new(macPolicy[t]), TRUE)
        p == Period_from(period)
    IN  /\ BagCardinality(handles) < MaxHandles
        /\ up \/ Len(heap[t]) < MaxRegs
        /\ HR_TIME' = [HR_TIME EXCEPT ![Slot(t)] = id]
        /\ IF p = Panic
           THEN \* unwinding drops `hrt`; a fresh one has no other owner
                /\ UNCHANGED handles
                /\ Commit(t, id, IF up THEN c ELSE HrTime_drop(c))
           ELSE /\ handles' = handles (+) SetToBag({HrPeriod(t, p, id)})
                /\ Commit(t, id, HrTime_add(c, p))
        /\ UNCHANGED <<platform, fromVars, setVars>>

\* A slip: update without `self.period = new`, so the handle keeps its period.
Update_keeps_period(h, period) ==
    LET new == Period_from(period)
    IN  /\ BagIn(h, handles)
        /\ IF new = Panic \/ new = h.period
           THEN UNCHANGED <<heap, calls, oscalls, winRes, macPolicy, osError, handles>>
           ELSE /\ UNCHANGED handles
                /\ Commit(h.thread, h.hrt,
                          HrPeriod_update_body(Ctx(h.thread, Cell(h.hrt), FALSE),
                                               h.period, new))
        /\ UNCHANGED <<platform, HR_TIME, fromVars, setVars>>

\* HrPeriod::update(period) on handle h.
Update(h, period) ==
    LET new == Period_from(period)
    IN  /\ BagIn(h, handles)
        /\ IF new = Panic \/ new = h.period
           THEN UNCHANGED <<heap, calls, oscalls, winRes, macPolicy, osError, handles>>
           ELSE /\ handles' = (handles (-) SetToBag({h}))
                                  (+) SetToBag({HrPeriod(h.thread, new, h.hrt)})
                /\ Commit(h.thread, h.hrt,
                          HrPeriod_update_body(Ctx(h.thread, Cell(h.hrt), FALSE),
                                               h.period, new))
        /\ UNCHANGED <<platform, HR_TIME, fromVars, setVars>>

\* impl Drop for HrPeriod on handle h, then the drop of its Rc field.
Drop(h) ==
    LET removed == HrTime_remove(Ctx(h.thread, Cell(h.hrt), FALSE), h.period)
    IN  /\ BagIn(h, handles)
        /\ handles' = handles (-) SetToBag({h})
        /\ Commit(h.thread, h.hrt,
                  IF StrongCount(h.hrt) = 1 THEN HrTime_drop(removed) ELSE removed)
        /\ UNCHANGED <<platform, HR_TIME, fromVars, setVars>>

Next ==
    \/ \E t \in Threads, d \in Requests : Get(t, d)
    \/ \E h \in Live, d \in Requests : Update(h, d)
    \/ \E h \in Live : Drop(h)

Spec == Init /\ [][Next]_vars

\* --------------------------------------------- Period::from on its own
NanosTried ==
    {k * NANOS_PER_MILLI + off : k \in 0..17, off \in {0, 1, 1000, ROUND_UP_NANOS}}
        \cup {NANOS_PER_SEC - NANOS_PER_MILLI, NANOS_PER_SEC - ROUND_UP_NANOS,
              NANOS_PER_SEC - 1}
Durations == {Duration(s, n) : s \in 0..MaxSecs, n \in NanosTried}

InitFrom ==
    /\ platform = "other"
    /\ HR_TIME = [t \in Threads |-> NullWeak]
    /\ heap = [t \in Threads |-> <<>>]
    /\ handles = EmptyBag
    /\ calls = [t \in Threads |-> <<>>]
    /\ oscalls = [t \in Threads |-> <<>>]
    /\ winRes = [p \in PeriodMIN..PeriodMAX |-> 0]
    /\ macPolicy = [t \in Threads |-> BasePolicy]
    /\ osError = FALSE
    /\ arg \in Durations
    /\ ret = None
    /\ arg2 = Duration(0, 0)
    /\ ret2 = None
    /\ build = ReleaseProfile
    /\ set = PeriodSet_default
    /\ setLog = <<>>
    /\ setRes = "ok"

\* let r = Period::from(arg)
Convert ==
    /\ ret = None
    /\ ret' = Period_from(arg)
    /\ UNCHANGED <<arg, arg2, ret2, sysVars, setVars>>

\* The caller goes on to another duration.
Again ==
    /\ ret # None
    /\ arg' \in Durations
    /\ ret' = None
    /\ UNCHANGED <<arg2, ret2, sysVars, setVars>>

NextFrom == Convert \/ Again

SpecFrom == InitFrom /\ [][NextFrom]_vars

\* ------------------------------------- Period::from on two durations
\* Duration's derived Ord: seconds first, then nanoseconds.
Duration_le(a, b) == a.secs < b.secs \/ (a.secs = b.secs /\ a.nanos <= b.nanos)

InitPair ==
    /\ platform = "other"
    /\ HR_TIME = [t \in Threads |-> NullWeak]
    /\ heap = [t \in Threads |-> <<>>]
    /\ handles = EmptyBag
    /\ calls = [t \in Threads |-> <<>>]
    /\ oscalls = [t \in Threads |-> <<>>]
    /\ winRes = [p \in PeriodMIN..PeriodMAX |-> 0]
    /\ macPolicy = [t \in Threads |-> BasePolicy]
    /\ osError = FALSE
    /\ arg \in Durations
    /\ ret = None
    /\ arg2 \in Durations
    /\ ret2 = None
    /\ build = ReleaseProfile
    /\ set = PeriodSet_default
    /\ setLog = <<>>
    /\ setRes = "ok"

\* let a = Period::from(arg)
ConvertFirst ==
    /\ ret = None
    /\ ret' = Period_from(arg)
    /\ UNCHANGED <<arg, arg2, ret2, sysVars, setVars>>

\* let b = Period::from(arg2), reached when the first call returned
ConvertSecond ==
    /\ ret \notin {None, Panic}
    /\ ret2 = None
    /\ ret2' = Period_from(arg2)
    /\ UNCHANGED <<arg, ret, arg2, sysVars, setVars>>

NextPair == ConvertFirst \/ ConvertSecond

SpecPair == InitPair /\ [][NextPair]_vars

\* ------------------------------------------------- PeriodSet on its own
\* The periods handed to add and remove: the ends of the array, one inside,
\* and MAX.
SetPeriods == {PeriodMIN, 4, PeriodMAX - 1, PeriodMAX}
SetCall(op, p) == [op |-> op, period |-> p]

InitSet ==
    /\ platform = "other"
    /\ HR_TIME = [t \in Threads |-> NullWeak]
    /\ heap = [t \in Threads |-> <<>>]
    /\ handles = EmptyBag
    /\ calls = [t \in Threads |-> <<>>]
    /\ oscalls = [t \in Threads |-> <<>>]
    /\ winRes = [p \in PeriodMIN..PeriodMAX |-> 0]
    /\ macPolicy = [t \in Threads |-> BasePolicy]
    /\ osError = FALSE
    /\ arg = Duration(0, 0)
    /\ ret = None
    /\ arg2 = Duration(0, 0)
    /\ ret2 = None
    /\ build \in Profiles
    /\ set = PeriodSet_default
    /\ setLog = <<>>
    /\ setRes = "ok"

\* set.add(p)
SetAdd(p) ==
    /\ setRes = "ok"
    /\ Len(setLog) < MaxSetOps
    /\ setLog' = Append(setLog, SetCall("add", p))
    /\ IF PeriodSet_add_panics(set, p, build)
       THEN setRes' = "panic" /\ set' = set
       ELSE setRes' = "ok" /\ set' = PeriodSet_add(set, p)
    /\ UNCHANGED <<build, sysVars, fromVars>>

\* set.remove(p)
SetRemove(p) ==
    /\ setRes = "ok"
    /\ Len(setLog) < MaxSetOps
    /\ setLog' = Append(setLog, SetCall("remove", p))
    /\ IF PeriodSet_remove_panics(set, p, build)
       THEN setRes' = "panic" /\ set' = set
       ELSE setRes' = "ok" /\ set' = PeriodSet_remove(set, p)
    /\ UNCHANGED <<build, sysVars, fromVars>>

NextSet ==
    \/ \E p \in SetPeriods : SetAdd(p)
    \/ \E p \in SetPeriods : SetRemove(p)

SpecSet == InitSet /\ [][NextSet]_vars

\* ------------------------------------------------------ what claims read
\* The periods below MAX held by the handles of registry id, and the
\* tightest of them (None when there is none).
HeldBy(id) == {h.period : h \in {x \in Live : x.hrt = id}} \ {PeriodMAX}
Tightest(S) == IF S = {} THEN None ELSE CHOOSE p \in S : \A q \in S : p <= q

\* The registries thread t has made that are still alive.
LiveRegs(t) == {n \in 1..Len(heap[t]) : heap[t][n].state = "live"}

\* periods.min() of thread t's registry; None when it has none.
RegMin(t) ==
    IF LiveRegs(t) = {} THEN None
    ELSE PeriodSet_min(heap[t][Tightest(LiveRegs(t))].periods)

\* The backend calls and the OS calls thread t makes in a step.
Suffix(old, new) == SubSeq(new, Len(old) + 1, Len(new))
NewCalls(t) ==
    IF Len(heap'[t]) > Len(heap[t]) THEN calls'[t] ELSE Suffix(calls[t], calls'[t])
NewOsCalls(t) ==
    IF Len(heap'[t]) > Len(heap[t]) THEN oscalls'[t] ELSE Suffix(oscalls[t], oscalls'[t])

BCall(op, p) == [op |-> op, period |-> p]

\* start(p), stop(p), start(q), stop(q), ...
Alternates(log) ==
    \A i \in 1..Len(log) :
        IF i % 2 = 1
        THEN log[i].op = "start"
        ELSE log[i].op = "stop" /\ log[i].period = log[i - 1].period

\* Every start is followed at once by the stop that closes it.
Matched(log) ==
    \A i \in 1..Len(log) :
        log[i].op = "start" => i < Len(log) /\ log[i + 1] = BCall("stop", log[i].period)

\* timeBeginPeriod/timeEndPeriod as Windows issues them for backend calls.
AsWindows(log) ==
    [i \in 1..Len(log) |->
        BCall(IF log[i].op = "start" THEN "timeBeginPeriod" ELSE "timeEndPeriod",
              log[i].period)]

\* ------------------------------------------------------------------ claims

\* C1: after every get, update and drop, each live registry's `active` equals
\* periods.min(), which is the tightest period below MAX that a live handle of
\* that registry holds, or None when no handle holds one.
C1_ActiveIsMin ==
    \A t \in Threads : \A n \in LiveRegs(t) :
        /\ heap[t][n].active = PeriodSet_min(heap[t][n].periods)
        /\ heap[t][n].active = Tightest(HeldBy(RegId(t, n)))

\* C1's case: the minimum has moved up from 1 to 4 and active followed it.
C1_Witness ==
    \E t \in Threads : \E n \in LiveRegs(t) :
        /\ heap[t][n].active = 4
        /\ \E i \in 1..Len(calls[t]) : calls[t][i] = BCall("stop", 1)

\* C2: for each registry the backend calls alternate start(p), stop(p),
\* start(q), stop(q), ...: the first is a start, each stop carries the period
\* of the start before it, the start still open is the one for `active`, and
\* on Windows they are exactly the timeBeginPeriod/timeEndPeriod calls made.
C2_CallsAlternate ==
    \A t \in Threads :
        /\ Alternates(calls[t])
        /\ \A n \in LiveRegs(t) :
              IF heap[t][n].active = None
              THEN Len(calls[t]) % 2 = 0
              ELSE /\ calls[t] # <<>>
                   /\ calls[t][Len(calls[t])] = BCall("start", heap[t][n].active)
        /\ LiveRegs(t) = {} => Len(calls[t]) % 2 = 0
        /\ platform = "windows" => oscalls[t] = AsWindows(calls[t])

\* C2's case: the minimum moved from Some(a) to another Some(b).
C2_Witness ==
    \E t \in Threads :
        /\ Len(calls[t]) >= 3
        /\ calls[t][2].op = "stop"
        /\ calls[t][3].op = "start"
        /\ calls[t][3].period # calls[t][2].period

\* C3: whenever a thread has no live handle, every backend start of its
\* registry has been matched by a stop, the registry is gone, the thread's
\* policy is the baseline, and with no handle anywhere no timer request is
\* outstanding.
C3_NothingElevatedAfterLastDrop ==
    /\ \A t \in Threads :
          LiveOn(t) = {} =>
              /\ Matched(calls[t])
              /\ LiveRegs(t) = {}
              /\ macPolicy[t] = BasePolicy
              /\ platform = "windows" => oscalls[t] = AsWindows(calls[t])
    /\ Live = {} => \A p \in PeriodMIN..PeriodMAX : winRes[p] = 0
    /\ ~osError

\* C3's case: a thread that elevated and has dropped its last handle.
C3_Witness ==
    \E t \in Threads : LiveOn(t) = {} /\ Len(calls[t]) >= 2

\* C4: a get, update or drop that leaves periods.min() of the thread's
\* registry unchanged makes no backend call and no OS call, and leaves the
\* thread's policy and the timer requests alone.
C4_NoCallWhenMinUnchanged ==
    [][/\ \A t \in Threads :
             RegMin(t)' = RegMin(t) =>
                 /\ NewCalls(t) = <<>>
                 /\ NewOsCalls(t) = <<>>
                 /\ macPolicy'[t] = macPolicy[t]
       /\ (\A t \in Threads : RegMin(t)' = RegMin(t)) => winRes' = winRes]_vars

\* C4's case: a handle for 4ms came to be held beside one for 1ms, and the
\* only call ever made is the start(1).
C4_Witness ==
    \E t \in Threads :
        /\ {h.period : h \in LiveOn(t)} = {1, 4}
        /\ calls[t] = <<BCall("start", 1)>>

\* Thread t's live handles are exactly one handle for each period of S.
HoldsExactly(t, S) ==
    /\ {h.period : h \in LiveOn(t)} = S
    /\ \A h \in LiveOn(t) : CopiesIn(h, handles) = 1

\* `active` of thread t's registry; None when it has none.
ActiveOf(t) ==
    IF LiveRegs(t) = {} THEN None ELSE heap[t][Tightest(LiveRegs(t))].active

\* The registry thread t made last.
LastReg(t) == heap[t][Len(heap[t])]

\* C5: with one handle for 1ms and one for 4ms on a thread, however they came
\* to be held, active is 1; dropping the 1ms handle makes active 4 with exactly
\* stop(1) then start(4) (timeEndPeriod(1), timeBeginPeriod(4) on Windows;
\* one set_realtime(4) on macOS); dropping the remaining 4ms handle ends the
\* registry with active None and exactly one stop(4) (one timeEndPeriod(4) on
\* Windows; one restore of the default policy on macOS).
C5_TwoHandles ==
    [][\A t \in Threads :
        /\ HoldsExactly(t, {1, 4})' => ActiveOf(t)' = 1
        /\ HoldsExactly(t, {1, 4}) /\ HoldsExactly(t, {4})' =>
              /\ ActiveOf(t)' = 4
              /\ NewCalls(t) = <<BCall("stop", 1), BCall("start", 4)>>
              /\ NewOsCalls(t) =
                    CASE platform = "windows" ->
                            <<BCall("timeEndPeriod", 1), BCall("timeBeginPeriod", 4)>>
                      [] platform = "macos" -> <<BCall("set_realtime", 4)>>
                      [] OTHER -> <<>>
        /\ HoldsExactly(t, {4}) /\ LiveOn(t)' = {} =>
              /\ LiveRegs(t)' = {}
              /\ LastReg(t)'.active = None
              /\ NewCalls(t) = <<BCall("stop", 4)>>
              /\ NewOsCalls(t) =
                    CASE platform = "windows" -> <<BCall("timeEndPeriod", 4)>>
                      [] platform = "macos" ->
                            <<BCall("set_thread_policy", BasePolicy)>>
                      [] OTHER -> <<>>
              /\ macPolicy'[t] = BasePolicy]_vars

\* C5's case: start(1) for the pair, the 1ms handle dropped, then the last.
C5_Witness ==
    \E t \in Threads :
        /\ LiveOn(t) = {}
        /\ calls[t] = <<BCall("start", 1), BCall("stop", 1),
                        BCall("start", 4), BCall("stop", 4)>>

\* C6: updating a thread's only handle from 1ms to 4ms takes one count from
\* slot 1 and adds one to slot 4 of the same registry, and makes one
\* transition: stop(1) then start(4), with no restore of the baseline between
\* (Windows: timeEndPeriod(1), timeBeginPeriod(4); macOS: set_realtime(4) alone).
C6_UpdateOneToFour ==
    [][\A t \in Threads :
        HoldsExactly(t, {1}) /\ HoldsExactly(t, {4})' =>
            /\ Len(heap'[t]) = Len(heap[t])
            /\ LastReg(t)'.state = "live"
            /\ LastReg(t)'.periods =
                   [LastReg(t).periods EXCEPT ![PeriodSet_idx(1)] = @ - 1,
                                              ![PeriodSet_idx(4)] = @ + 1]
            /\ LastReg(t)'.active = 4
            /\ NewCalls(t) = <<BCall("stop", 1), BCall("start", 4)>>
            /\ NewOsCalls(t) =
                  CASE platform = "windows" ->
                          <<BCall("timeEndPeriod", 1), BCall("timeBeginPeriod", 4)>>
                    [] platform = "macos" -> <<BCall("set_realtime", 4)>>
                    [] OTHER -> <<>>]_vars

\* C6's case: one handle, got for 1ms and now holding 4ms.
C6_Witness ==
    \E t \in Threads :
        /\ HoldsExactly(t, {4})
        /\ calls[t] = <<BCall("start", 1), BCall("stop", 1), BCall("start", 4)>>

\* C7 as stated: a get or update whose duration quantizes to MAX adds to no
\* counter and never causes a backend start, and while every live handle of a
\* thread holds MAX its registry has all counts zero and active None, and the
\* OS is at the baseline for it.
C7_Original ==
    [][\A t \in Threads :
        /\ \A d \in Requests :
              Period_from(d) = PeriodMAX =>
                  /\ Get(t, d) =>
                        /\ NewCalls(t) = <<>>
                        /\ NewOsCalls(t) = <<>>
                        /\ LastReg(t)'.periods =
                               IF Len(heap'[t]) > Len(heap[t]) THEN PeriodSet_default
                               ELSE LastReg(t).periods
                  /\ \A h \in LiveOn(t) :
                        Update(h, d) /\ h.period # PeriodMAX =>
                            /\ \A i \in 1..Len(NewCalls(t)) : NewCalls(t)[i].op # "start"
                            /\ LastReg(t)'.periods =
                                   PeriodSet_remove(LastReg(t).periods, h.period)
        /\ (LiveOn(t) # {} /\ \A h \in LiveOn(t) : h.period = PeriodMAX)' =>
              /\ LastReg(t)'.state = "live"
              /\ LastReg(t)'.periods = PeriodSet_default
              /\ LastReg(t)'.active = None
              /\ Matched(calls'[t])
              /\ macPolicy'[t] = BasePolicy
              /\ platform = "windows" => oscalls'[t] = AsWindows(calls'[t])]_vars

\* C7, amended: a get whose duration quantizes to MAX adds to no counter and
\* makes no backend or OS call; an update to MAX adds to no counter, and the
\* only start it can cause is the one for the tightest period the thread's
\* other live handles hold, looser than the period it gave up; while every
\* live handle of a thread holds MAX its registry has all counts zero and
\* active None, and the OS is at the baseline for it.
C7_MaxNeverElevates ==
    [][\A t \in Threads :
        /\ \A d \in Requests :
              Period_from(d) = PeriodMAX =>
                  /\ Get(t, d) =>
                        /\ NewCalls(t) = <<>>
                        /\ NewOsCalls(t) = <<>>
                        /\ LastReg(t)'.periods =
                               IF Len(heap'[t]) > Len(heap[t]) THEN PeriodSet_default
                               ELSE LastReg(t).periods
                  /\ \A h \in LiveOn(t) :
                        Update(h, d) /\ h.period # PeriodMAX =>
                            /\ \A i \in 1..Len(NewCalls(t)) :
                                  NewCalls(t)[i].op = "start" =>
                                      /\ NewCalls(t)[i].period =
                                             Tightest({g.period : g \in LiveOn(t)'}
                                                          \ {PeriodMAX})
                                      /\ NewCalls(t)[i].period > h.period
                            /\ LastReg(t)'.periods =
                                   PeriodSet_remove(LastReg(t).periods, h.period)
        /\ (LiveOn(t) # {} /\ \A h \in LiveOn(t) : h.period = PeriodMAX)' =>
              /\ LastReg(t)'.state = "live"
              /\ LastReg(t)'.periods = PeriodSet_default
              /\ LastReg(t)'.active = None
              /\ Matched(calls'[t])
              /\ macPolicy'[t] = BasePolicy
              /\ platform = "windows" => oscalls'[t] = AsWindows(calls'[t])]_vars

\* C7's case: a handle beside one for 4ms went from 1ms to MAX, which
\* restarted the timer at 4ms.
C7_Witness ==
    \E t \in Threads :
        /\ HoldsExactly(t, {4, PeriodMAX})
        /\ calls[t] = <<BCall("start", 1), BCall("stop", 1), BCall("start", 4)>>

\* C8: a thread has a live registry exactly while it has a live handle (one
\* holding MAX included), and never two; a get with no live handle makes a new
\* registry, which holds nothing but that get's period; the registry stays
\* the same while handles remain, and is dropped with the last handle.
C8_RegistryLifetime ==
    [][\A t \in Threads :
        /\ (LiveOn(t) # {} <=> LiveRegs(t) # {})'
        /\ Cardinality(LiveRegs(t))' <= 1
        /\ LiveRegs(t)' # {} => HR_TIME'[t] = RegId(t, Len(heap'[t]))
        /\ Len(heap'[t]) > Len(heap[t]) => LiveOn(t) = {}
        /\ LiveOn(t) = {} /\ LiveOn(t)' # {} =>
              /\ Len(heap'[t]) = Len(heap[t]) + 1
              /\ \E h \in LiveOn(t)' :
                    /\ LiveOn(t)' = {h}
                    /\ CopiesIn(h, handles') = 1
                    /\ h.hrt = RegId(t, Len(heap'[t]))
                    /\ LastReg(t)'.periods = PeriodSet_add(PeriodSet_default, h.period)
                    /\ LastReg(t)'.active =
                           IF h.period = PeriodMAX THEN None ELSE h.period
                    /\ calls'[t] = IF h.period = PeriodMAX THEN <<>>
                                   ELSE <<BCall("start", h.period)>>
        /\ LiveOn(t) # {} /\ LiveOn(t)' # {} => heap'[t] # <<>> /\ LiveRegs(t)' = LiveRegs(t)
        /\ LiveOn(t) # {} /\ LiveOn(t)' = {} =>
              /\ Len(heap'[t]) = Len(heap[t])
              /\ LastReg(t)'.state = "dropped"]_vars

\* C8's case: a thread's second registry, its first dropped after elevating.
C8_Witness ==
    \E t \in Threads :
        /\ Len(heap[t]) = 2
        /\ heap[t][1].state = "dropped"
        /\ heap[t][2].state = "live"
        /\ heap[t][2].active = 4
        /\ LiveOn(t) # {}

\* C9: every handle and every HR_TIME slot refers to a registry of its own
\* thread; a step changes the registry, the logs and the policy of one thread
\* at most; a stop carries the period of the start its own registry has open;
\* and each registry's open start still stands with the OS (on Windows one
\* timer request per registry whose active is that period).
C9_ThreadsAreSeparate ==
    [][/\ \A h \in Live' : h.hrt.owner = h.thread
       /\ \A t \in Threads : HR_TIME'[t] = NullWeak \/ HR_TIME'[t].owner = t
       /\ \E t \in Threads : \A u \in Threads \ {t} :
             /\ heap'[u] = heap[u]
             /\ calls'[u] = calls[u]
             /\ oscalls'[u] = oscalls[u]
             /\ macPolicy'[u] = macPolicy[u]
             /\ HR_TIME'[u] = HR_TIME[u]
       /\ \A t \in Threads : \A i \in 1..Len(NewCalls(t)) :
             NewCalls(t)[i].op = "stop" /\ i = 1 => NewCalls(t)[i].period = ActiveOf(t)
       /\ platform = "windows" =>
             \A p \in PeriodMIN..PeriodMAX :
                 winRes'[p] = Cardinality({t \in Threads : ActiveOf(t)' = p})
       /\ platform = "macos" =>
             \A t \in Threads : macPolicy'[t] = ActiveOf(t)']_vars

\* C9's case: both threads started 1ms, one has dropped its handle and
\* stopped, and the other's registry is still at 1ms.
C9_Witness ==
    \E t \in Threads : \E u \in Threads \ {t} :
        /\ LiveOn(u) = {}
        /\ calls[u] = <<BCall("start", 1), BCall("stop", 1)>>
        /\ ActiveOf(t) = 1
        /\ calls[t] = <<BCall("start", 1)>>

\* C10: Period::from returns a Period for every Duration and never panics.
C10_FromIsTotal == ret # Panic

\* The least whole number of milliseconds that is no shorter than d.
CeilMillis(d) ==
    d.secs * MILLIS_PER_SEC
        + CHOOSE m \in 0..MILLIS_PER_SEC :
              /\ m * NANOS_PER_MILLI >= d.nanos
              /\ \A k \in 0..(m - 1) : k * NANOS_PER_MILLI < d.nanos

\* C11: Period::from rounds its duration up to whole milliseconds and clamps
\* the result into [MIN, MAX]: whenever it returns, it returns the least
\* number of milliseconds no shorter than the duration, raised to 1 and cut to
\* 16; and it returns for every duration below one second. So zero and every
\* sub-millisecond duration give 1, exactly k ms gives k (k in 1..16), k ms
\* and one nanosecond or more (below k+1 ms, k in 1..15) gives k+1, and
\* 1.001 ms gives 2.
C11_RoundsUpAndClamps ==
    ret # None =>
        /\ arg.secs = 0 => ret # Panic
        /\ ret # Panic =>
              /\ ret = Max2(PeriodMIN, Min2(CeilMillis(arg), PeriodMAX))
              /\ arg.secs = 0 /\ arg.nanos < NANOS_PER_MILLI => ret = PeriodMIN
              /\ \A k \in PeriodMIN..PeriodMAX :
                    arg = Duration_from_millis(k) => ret = k
              /\ \A k \in PeriodMIN..(PeriodMAX - 1) :
                    /\ arg.secs = 0
                    /\ arg.nanos > k * NANOS_PER_MILLI
                    /\ arg.nanos < (k + 1) * NANOS_PER_MILLI
                    => ret = k + 1
              /\ arg = Duration(0, NANOS_PER_MILLI + 1000) => ret = 2

\* C11's case: 1.001 ms has been converted, and came out as 2.
C11_Witness ==
    /\ arg = Duration(0, NANOS_PER_MILLI + 1000)
    /\ ret = 2

\* C12: quantization is monotonic: for durations d1 <= d2, both conversions
\* return a Period and Period::from(d1) <= Period::from(d2).
C12_Monotonic ==
    (Duration_le(arg, arg2) /\ ret # None /\ ret2 # None) =>
        /\ ret # Panic
        /\ ret2 # Panic
        /\ ret <= ret2

\* How many live handles of registry id hold period p.
HeldCount(id, p) ==
    LET holders == {h \in Live : h.hrt = id /\ h.period = p}
    IN  IF holders = {} THEN 0
        ELSE BagCardinality([h \in holders |-> CopiesIn(h, handles)])

\* The step drops handle h: one copy of h leaves the bag, nothing enters.
Drops(h) == handles' = handles (-) SetToBag({h})

\* The step updates handle h to another period.
Updates(h) ==
    \E g \in Live' :
        /\ g # h
        /\ g.thread = h.thread /\ g.hrt = h.hrt
        /\ handles' = (handles (-) SetToBag({h})) (+) SetToBag({g})

\* C13: in every state, each counter slot p in 1..15 of each registry equals
\* the number of live handles of that registry holding p, and there is no
\* slot for MAX; a drop (and an update away from a period) finds its slot
\* above 0, so PeriodSet::remove's assertion holds, and takes exactly one
\* from it, a drop leaving every other slot as it was.
C13_CountsMatchHandles ==
    /\ [](\A t \in Threads : \A n \in 1..Len(heap[t]) :
             /\ DOMAIN heap[t][n].periods = Slots
             /\ \A p \in PeriodMIN..(PeriodMAX - 1) :
                   heap[t][n].periods[PeriodSet_idx(p)] = HeldCount(RegId(t, n), p))
    /\ [][\A h \in Live :
             LET before == Cell(h.hrt).periods
                 after == heap'[h.hrt.owner][h.hrt.gen].periods
                 mine == PeriodSet_idx(h.period)
             IN  /\ Drops(h) =>
                       IF h.period = PeriodMAX THEN after = before
                       ELSE /\ before[mine] > 0
                            /\ after = [before EXCEPT ![mine] = @ - 1]
                 /\ Updates(h) /\ h.period # PeriodMAX =>
                       /\ before[mine] > 0
                       /\ after[mine] = before[mine] - 1
         ]_vars

\* C13's case: a thread got handles for 4ms and 1ms and then updated the
\* first to 1ms: slot 4 went back to 0 and slot 1 counts both handles.
C13_Witness ==
    \E t \in Threads :
        /\ LiveRegs(t) # {}
        /\ calls[t] = <<BCall("start", 4), BCall("stop", 4), BCall("start", 1)>>
        /\ LastReg(t).periods[PeriodSet_idx(1)] = 2
        /\ LastReg(t).periods[PeriodSet_idx(4)] = 0
        /\ CopiesIn(HrPeriod(t, 1, RegId(t, Len(heap[t]))), handles) = 2

\* C14: PeriodSet::remove(p) for p below MAX on a slot that is 0 panics and
\* leaves the counts as they were: the slot is never left wrapped.
C14_RemoveAtZeroFails ==
    [][\A p \in SetPeriods \ {PeriodMAX} :
          SetRemove(p) /\ set[PeriodSet_idx(p)] = 0
              => setRes' = "panic" /\ set' = set]_vars

\* The adds of p in a log of PeriodSet calls, less the removes of p.
RECURSIVE Outstanding(_, _)
Outstanding(log, p) ==
    IF log = <<>> THEN 0
    ELSE LET last == log[Len(log)]
             rest == Outstanding(SubSeq(log, 1, Len(log) - 1), p)
         IN  IF last.period # p THEN rest
             ELSE IF last.op = "add" THEN rest + 1 ELSE rest - 1

\* Every remove in the log matches an earlier add that no remove has used.
RemovesMatchAdds(log) ==
    \A i \in 1..Len(log) : Outstanding(SubSeq(log, 1, i), log[i].period) >= 0

\* The counts a log of calls that all return leaves in a new PeriodSet.
RECURSIVE Replay(_)
Replay(log) ==
    IF log = <<>> THEN PeriodSet_default
    ELSE LET last == log[Len(log)]
             rest == Replay(SubSeq(log, 1, Len(log) - 1))
         IN  IF last.op = "add" THEN PeriodSet_add(rest, last.period)
             ELSE PeriodSet_remove(rest, last.period)

IsBelowMax(call) == call.period # PeriodMAX

\* C15: after every sequence of PeriodSet::add and PeriodSet::remove calls in
\* which each remove matches an earlier add, in every build, no call has
\* panicked and PeriodSet::min returns the smallest period whose slot is
\* positive (the smallest period below MAX added more often than removed),
\* or None when every slot is 0; it returns what it would return had the adds
\* and removes of MAX not been made.
C15_MinIsSmallestCounted ==
    RemovesMatchAdds(setLog) =>
        /\ setRes = "ok"
        /\ PeriodSet_min(set) =
              Tightest({p \in PeriodMIN..(PeriodMAX - 1) : set[PeriodSet_idx(p)] > 0})
        /\ PeriodSet_min(set) =
              Tightest({p \in PeriodMIN..(PeriodMAX - 1) : Outstanding(setLog, p) > 0})
        /\ PeriodSet_min(set) = PeriodSet_min(Replay(SelectSeq(setLog, IsBelowMax)))

\* C15's case: 1, 4 and MAX were added and 1 removed again: min is Some(4).
C15_Witness ==
    /\ setLog = <<SetCall("add", 1), SetCall("add", 4), SetCall("add", PeriodMAX),
                  SetCall("remove", 1)>>
    /\ setRes = "ok"
    /\ PeriodSet_min(set) = 4

\* C16: HrPeriod::update with a duration that quantizes to the period the
\* handle holds changes nothing: not the handle, no counter slot, not active,
\* and no backend or OS call is made. With a duration that quantizes to
\* another period, the handle holds that period afterwards, on the same
\* registry. (Where Period::from panics, update unwinds before it has
\* changed anything.)
C16_UpdateSamePeriodIsNoOp ==
    [][\A h \in Live : \A d \in Requests :
          Update(h, d) =>
              LET new == Period_from(d)
              IN  /\ new = h.period =>
                        UNCHANGED <<handles, heap, HR_TIME, calls, oscalls, winRes,
                                    macPolicy, osError>>
                  /\ new \notin {h.period, Panic} =>
                        /\ handles' = (handles (-) SetToBag({h}))
                                          (+) SetToBag({HrPeriod(h.thread, new, h.hrt)})
                        /\ BagCardinality(handles') = BagCardinality(handles)
                  /\ new = Panic =>
                        UNCHANGED <<handles, heap, HR_TIME, calls, oscalls, winRes,
                                    macPolicy, osError>>
      ]_vars

\* C16's case: each thread holds one handle; one thread's handle was got for
\* 1ms and holds 4ms after an update, on the thread's first registry.
C16_Witness ==
    \E t \in Threads : \E u \in Threads \ {t} :
        /\ handles = SetToBag({HrPeriod(t, 4, RegId(t, 1)), HrPeriod(u, 1, RegId(u, 1))})
        /\ calls[t] = <<BCall("start", 1), BCall("stop", 1), BCall("start", 4)>>
        /\ calls[u] = <<BCall("start", 1)>>

\* The registries other than id are, after the step, what they were before.
OthersUntouched(id) ==
    \A t \in Threads :
        /\ Len(heap'[t]) >= Len(heap[t])
        /\ \A n \in 1..Len(heap[t]) : RegId(t, n) # id => heap'[t][n] = heap[t][n]

\* C17: in every state each thread has at most one live registry and all
\* its live handles refer to that one; a get counts its handle in the
\* registry the handle refers to, and an update or a drop of a handle changes
\* that same registry and no other: it takes the handle's period from that
\* registry's slot, never from a registry made after the handle's.
C17_OneRegistryPerThread ==
    /\ [](\A t \in Threads :
             /\ Cardinality(LiveRegs(t)) <= 1
             /\ \A h \in LiveOn(t) : h.hrt.owner = t /\ h.hrt.gen \in LiveRegs(t))
    /\ [][/\ \A h \in Live' :
               handles' = handles (+) SetToBag({h}) =>
                   /\ OthersUntouched(h.hrt)
                   /\ h.period # PeriodMAX =>
                         heap'[h.thread][h.hrt.gen].periods[PeriodSet_idx(h.period)]
                             = HeldCount(h.hrt, h.period) + 1
          /\ \A h \in Live :
                LET before == Cell(h.hrt).periods
                    after == heap'[h.hrt.owner][h.hrt.gen].periods
                    mine == PeriodSet_idx(h.period)
                IN  /\ Drops(h) =>
                          /\ OthersUntouched(h.hrt)
                          /\ h.period # PeriodMAX => after[mine] = before[mine] - 1
                    /\ Updates(h) =>
                          /\ OthersUntouched(h.hrt)
                          /\ h.period # PeriodMAX => after[mine] = before[mine] - 1
         ]_vars

\* C17's case: a thread's two live handles both refer to its second registry,
\* the first one having been dropped with its last handle.
C17_Witness ==
    \E t \in Threads :
        /\ Len(heap[t]) = 2
        /\ heap[t][1].state = "dropped"
        /\ LiveRegs(t) = {2}
        /\ BagCardinality(handles) = 2
        /\ \A h \in Live : h.hrt = RegId(t, 2)
        /\ HeldBy(RegId(t, 2)) = {1, 4}

\* The OS call that takes a thread back to its baseline from period p.
RestoreCalls(p) ==
    CASE platform = "windows" -> <<BCall("timeEndPeriod", p)>>
      [] platform = "macos" -> <<BCall("set_thread_policy", BasePolicy)>>
      [] OTHER -> <<>>

IsRestore(call) == call.op = "set_thread_policy"

\* C18: the baseline is restored exactly once per elevation episode. The
\* step in which a thread's active goes from Some(p) to None makes exactly
\* one backend call, stop(p), and exactly one restoring OS call
\* (timeEndPeriod(p) on Windows, one set_thread_policy of the default on
\* macOS), and no other step restores the default policy. When a registry is
\* destroyed its active is None already: if active was None before the step
\* the destruction makes no backend and no OS call, and if the step is the
\* drop of the last elevating handle it makes the one stop and restore above
\* and Drop for HrTime adds nothing to them.
C18_RestoredOncePerEpisode ==
    [][\A t \in Threads :
          LET was == ActiveOf(t)
              ended == was # None /\ ActiveOf(t)' = None
          IN  /\ ended =>
                    /\ NewCalls(t) = <<BCall("stop", was)>>
                    /\ NewOsCalls(t) = RestoreCalls(was)
                    /\ macPolicy'[t] = BasePolicy
              /\ ~ended => SelectSeq(NewOsCalls(t), IsRestore) = <<>>
              /\ \A n \in 1..Len(heap'[t]) :
                    /\ heap'[t][n].state = "dropped"
                    /\ n <= Len(heap[t]) => heap[t][n].state = "live"
                    => /\ heap'[t][n].active = None
                       /\ was = None => NewCalls(t) = <<>> /\ NewOsCalls(t) = <<>>
      ]_vars

\* C18's case: on macOS one registry went through two episodes, 1ms ended by
\* an update to MAX and 4ms ended by the drop of the handle, which destroyed
\* the registry: each episode has one restore of the default policy.
C18_Witness ==
    \E t \in Threads :
        /\ platform = "macos"
        /\ Len(heap[t]) = 1
        /\ heap[t][1].state = "dropped"
        /\ heap[t][1].active = None
        /\ calls[t] = <<BCall("start", 1), BCall("stop", 1),
                        BCall("start", 4), BCall("stop", 4)>>
        /\ oscalls[t] = <<BCall("set_realtime", 1), BCall("set_thread_policy", BasePolicy),
                          BCall("set_realtime", 4), BCall("set_thread_policy", BasePolicy)>>
        /\ macPolicy[t] = BasePolicy

====
